---- MODULE Spec2Model ----
(***************************************************************************)
(* SignalEngine (src/signal_engine.py): four technical-analysis strategies *)
(* vote on a candle array and analyze() combines the votes with a weight   *)
(* table.                                                                  *)
(*                                                                         *)
(* Numbers.  The program computes in 64-bit floats.  The model computes    *)
(* the same expressions over exact rationals <<num, den>> (den > 0, lowest *)
(* terms); rounding error, NaN and Inf are outside the model.  The only    *)
(* irrational quantity, the standard deviation of the Bollinger bands, is  *)
(* kept as a surd  a + k*sqrt(v)  and compared exactly.                    *)
(***************************************************************************)
EXTENDS Integers, Sequences, FiniteSets, TLC

(***************************************************************************)
(* Bounds of the explored inputs.                                          *)
(***************************************************************************)
MaxLen == 30
MaxPrice == 3
MaxVolume == 3
MaxWeight == 2
MaxMutations == 1
NumCalls == 2
AvgHalfSteps == 2

(***************************************************************************)
(* Exact rational arithmetic standing for the float operators.  A value    *)
(* that is needed more than once is passed as an operator argument, which  *)
(* TLC evaluates once.                                                     *)
(***************************************************************************)
Abs(x) == IF x < 0 THEN -x ELSE x

RECURSIVE GCD(_, _)
GCD(a, b) == IF b = 0 THEN a ELSE GCD(b, a % b)

RNormBy(n, d, g) ==
    IF d < 0 THEN <<(-n) \div g, (-d) \div g>> ELSE <<n \div g, d \div g>>

RNorm(n, d) == RNormBy(n, d, GCD(Abs(n), Abs(d)))

R(n) == <<n, 1>>

RNeg(a) == <<-a[1], a[2]>>

RAddOver(a, b, l) == RNorm(a[1] * (l \div a[2]) + b[1] * (l \div b[2]), l)

RAdd(a, b) == RAddOver(a, b, (a[2] \div GCD(a[2], b[2])) * b[2])

RSub(a, b) == RAdd(a, RNeg(b))

RMulBy(a, b, g1, g2) ==
    <<(a[1] \div g1) * (b[1] \div g2), (a[2] \div g2) * (b[2] \div g1)>>

RMul(a, b) == RMulBy(a, b, GCD(Abs(a[1]), b[2]), GCD(Abs(b[1]), a[2]))

\* The value of a division by zero: not a number.
ZeroDivisionError == <<0, 0>>

RDiv(a, b) == IF b[1] = 0 THEN ZeroDivisionError ELSE RMul(a, RNorm(b[2], b[1]))

RLt(a, b) == a[1] * b[2] < b[1] * a[2]

RLe(a, b) == a[1] * b[2] <= b[1] * a[2]

RGt(a, b) == RLt(b, a)

RGe(a, b) == RLe(b, a)

RAbs(a) == <<Abs(a[1]), a[2]>>

RMin(a, b) == IF RLt(b, a) THEN b ELSE a

\* round(x, ndigits) for ndigits 2 and 4: the nearest multiple of
\* 1/p, p = 10^ndigits, ties to the even multiple.
RoundAt(y, p, f) ==
    RNorm(IF 2 * (y[1] - f * y[2]) > y[2] THEN f + 1
          ELSE IF 2 * (y[1] - f * y[2]) < y[2] THEN f
          ELSE IF f % 2 = 0 THEN f ELSE f + 1,
          p)

RoundScaled(y, p) == RoundAt(y, p, y[1] \div y[2])

Round(x, ndigits) ==
    RoundScaled(RMul(x, R(IF ndigits = 2 THEN 100 ELSE 10000)),
                IF ndigits = 2 THEN 100 ELSE 10000)

\* The value of an expression that raised IndexError instead of returning
\* a number (an index into an empty array).
IndexError == <<0, 0>>

IsRaised(x) == x[2] = 0

(***************************************************************************)
(* numpy helpers on sequences of closes / volumes (integral float values). *)
(***************************************************************************)
\* a[-1]
Last(a) == IF Len(a) = 0 THEN IndexError ELSE R(a[Len(a)])

\* a[:-1]
AllButLast(a) == SubSeq(a, 1, Len(a) - 1)

\* a[-k:]
Trailing(a, k) == SubSeq(a, IF Len(a) > k THEN Len(a) - k + 1 ELSE 1, Len(a))

RECURSIVE SumSeq(_)
SumSeq(a) == IF Len(a) = 0 THEN 0 ELSE a[1] + SumSeq(Tail(a))

\* np.mean
Mean(a) == RNorm(SumSeq(a), Len(a))

\* np.std squared: the population variance
VarianceOf(n, s, sq) == RNorm(n * sq - s * s, n * n)

Variance(a) == VarianceOf(Len(a), SumSeq(a), SumSeq([i \in 1..Len(a) |-> a[i] * a[i]]))

\* np.diff
Diff(a) == [i \in 1..(Len(a) - 1) |-> a[i + 1] - a[i]]

\* np.where(deltas > 0, deltas, 0) and np.where(deltas < 0, -deltas, 0)
Gains(deltas) == [i \in 1..Len(deltas) |-> IF deltas[i] > 0 THEN deltas[i] ELSE 0]

Losses(deltas) == [i \in 1..Len(deltas) |-> IF deltas[i] < 0 THEN -deltas[i] ELSE 0]

\* A band value  a + k*sqrt(v)  with a, v rational and k an integer.
Surd(a, k, v) == [a |-> a, k |-> k, v |-> v]

\* d < k*sqrt(v)
LtRoot(d, k, v) ==
    IF k >= 0
    THEN RLt(d, R(0)) \/ RLt(RMul(d, d), RMul(R(k * k), v))
    ELSE RLt(d, R(0)) /\ RGt(RMul(d, d), RMul(R(k * k), v))

\* x < a + k*sqrt(v)
LtSurd(x, s) == LtRoot(RSub(x, s.a), s.k, s.v)

\* x > a + k*sqrt(v)
GtSurd(x, s) == LtRoot(RSub(s.a, x), -s.k, s.v)

(***************************************************************************)
(* Indicators.                                                             *)
(***************************************************************************)
\* rs = avg_gain / avg_loss; 100 - (100 / (1 + rs)), 100.0 when avg_loss == 0
rsi_of(avg_gain, avg_loss) ==
    IF avg_loss = R(0) THEN R(100)
    ELSE RSub(R(100), RDiv(R(100), RAdd(R(1), RDiv(avg_gain, avg_loss))))

calculate_rsi(closes, period) ==
    IF Len(closes) < period + 1 THEN R(50)
    ELSE rsi_of(Mean(Trailing(Gains(Diff(closes)), period)),
                Mean(Trailing(Losses(Diff(closes)), period)))

\* (upper, sma, lower) with upper/lower = sma +/- std * std_dev
bands(sma, std, var) ==
    [upper |-> Surd(sma, std, var), mid |-> sma, lower |-> Surd(sma, -std, var)]

calculate_bollinger_bands(closes, period, std) ==
    IF Len(closes) < period
    THEN bands(Last(closes), 0, R(0))
    ELSE bands(Mean(Trailing(closes, period)), std, Variance(Trailing(closes, period)))

\* for price in closes[1:]: ema = (price * multiplier) + (ema * (1 - multiplier))
RECURSIVE ema_loop(_, _, _, _)
ema_loop(ema, closes, i, multiplier) ==
    IF i > Len(closes) \/ IsRaised(ema) THEN ema
    ELSE ema_loop(RAdd(RMul(R(closes[i]), multiplier),
                       RMul(ema, RSub(R(1), multiplier))),
                  closes, i + 1, multiplier)

\* The EMA loop run whatever the length.
calculate_ema_no_fallback(closes, period) ==
    IF Len(closes) = 0 THEN IndexError
    ELSE ema_loop(R(closes[1]), closes, 2, RNorm(2, period + 1))

calculate_ema(closes, period) ==
    IF Len(closes) < period THEN Last(closes)
    ELSE ema_loop(R(closes[1]), closes, 2, RNorm(2, period + 1))

\* (macd_line, signal_line, histogram)
macd_tuple(macd_line, signal_line) ==
    [macd_line |-> macd_line, signal_line |-> signal_line,
     histogram |-> RSub(macd_line, signal_line)]

macd_of(macd_line) == macd_tuple(macd_line, RMul(macd_line, RNorm(9, 10)))

calculate_macd(closes) == macd_of(RSub(calculate_ema(closes, 12), calculate_ema(closes, 26)))

(***************************************************************************)
(* SignalType and the result records.                                      *)
(***************************************************************************)
SignalType == {"STRONG_LONG", "LONG", "NEUTRAL", "SHORT", "STRONG_SHORT"}

\* SignalType.value
SignalValue(s) ==
    CASE s = "STRONG_LONG" -> 2
      [] s = "LONG" -> 1
      [] s = "NEUTRAL" -> 0
      [] s = "SHORT" -> -1
      [] s = "STRONG_SHORT" -> -2

StrategySignal(name, signal, confidence, indicators, reason) ==
    [name |-> name, signal |-> signal, confidence |-> confidence,
     indicators |-> indicators, reason |-> reason]

CompositeSignal(price, signal, confidence, strategies) ==
    [price |-> price, signal |-> signal, confidence |-> confidence,
     strategies |-> strategies]

\* A call either returns a value or raises.
Returned(v) == [raised |-> FALSE, value |-> v]

Raise == [raised |-> TRUE, value |-> "IndexError"]

\* candles[:, 4] and candles[:, 5]
Closes(candles) == [i \in 1..Len(candles) |-> candles[i].close]

Volumes(candles) == [i \in 1..Len(candles) |-> candles[i].volume]

\* The confidence left as computed, without the cap.
clamp_missing(confidence) == confidence

\* confidence = min(confidence, 100)
clamp(confidence) == RMin(confidence, R(100))

(***************************************************************************)
(* Strategies.  Each is the chain: indicator values, the branch of the     *)
(* if/elif chain that is taken (0 when none is), the StrategySignal built  *)
(* from it.  A reason built by an f-string is modelled by its literal text *)
(* up to the first formatted value.                                        *)
(***************************************************************************)
\* The chain with the overbought tests in the other order.
rsi_branch_reordered(rsi, price, bb) ==
    IF RLt(rsi, R(30)) /\ LtSurd(price, bb.lower) THEN 1
    ELSE IF RLt(rsi, R(35)) /\ RLt(price, bb.mid) THEN 2
    ELSE IF RGt(rsi, R(65)) /\ RGt(price, bb.mid) THEN 4
    ELSE IF RGt(rsi, R(70)) /\ GtSurd(price, bb.upper) THEN 3
    ELSE 0

rsi_branch(rsi, price, bb) ==
    IF RLt(rsi, R(30)) /\ LtSurd(price, bb.lower) THEN 1
    ELSE IF RLt(rsi, R(35)) /\ RLt(price, bb.mid) THEN 2
    ELSE IF RGt(rsi, R(70)) /\ GtSurd(price, bb.upper) THEN 3
    ELSE IF RGt(rsi, R(65)) /\ RGt(price, bb.mid) THEN 4
    ELSE 0

rsi_result(branch, rsi, bb) ==
    StrategySignal("RSI Mean Reversion",
        CASE branch = 1 -> "STRONG_LONG"
          [] branch = 2 -> "LONG"
          [] branch = 3 -> "STRONG_SHORT"
          [] branch = 4 -> "SHORT"
          [] OTHER -> "NEUTRAL",
        clamp(CASE branch = 1 -> RAdd(R(80), RSub(R(30), rsi))
                [] branch = 2 -> RAdd(R(60), RSub(R(35), rsi))
                [] branch = 3 -> RAdd(R(80), RSub(rsi, R(70)))
                [] branch = 4 -> RAdd(R(60), RSub(rsi, R(65)))
                [] OTHER -> R(50)),
        [rsi |-> Round(rsi, 2), bb_lower |-> bb.lower, bb_upper |-> bb.upper],
        CASE branch = 1 -> "Oversold: RSI="
          [] branch = 2 -> "Near oversold: RSI="
          [] branch = 3 -> "Overbought: RSI="
          [] branch = 4 -> "Near overbought: RSI="
          [] OTHER -> "No clear signal")

rsi_signal(rsi, price, bb) ==
    IF IsRaised(price) THEN Raise
    ELSE Returned(rsi_result(rsi_branch(rsi, price, bb), rsi, bb))

strategy_rsi_mean_reversion(candles) ==
    IF Len(candles) = 0 THEN Raise
    ELSE rsi_signal(calculate_rsi(Closes(candles), 14), Last(Closes(candles)),
                    calculate_bollinger_bands(Closes(candles), 20, 2))

\* The previous EMA taken from closes[:-1] whatever the length.
prev_ema_unguarded(closes, period, current) ==
    calculate_ema(AllButLast(closes), period)

\* The previous EMA taken to be the current one whatever the length.
prev_ema_current(closes, period, current) == current

\* prev_fast / prev_slow: the EMA of closes[:-1], or the current EMA for a
\* single close.
prev_ema(closes, period, current) ==
    IF Len(closes) > 1 THEN calculate_ema(AllButLast(closes), period) ELSE current

golden_branch(fast_ema, slow_ema, prev_fast, prev_slow) ==
    IF RLe(prev_fast, prev_slow) /\ RGt(fast_ema, slow_ema) THEN 1
    ELSE IF RGe(prev_fast, prev_slow) /\ RLt(fast_ema, slow_ema) THEN 2
    ELSE IF RGt(fast_ema, slow_ema) THEN 3
    ELSE IF RLt(fast_ema, slow_ema) THEN 4
    ELSE 0

\* The crossovers voted as strong signals of full confidence.
golden_result_strong(branch, fast_ema, slow_ema) ==
    StrategySignal("Golden Cross",
        CASE branch = 1 -> "STRONG_LONG"
          [] branch = 2 -> "STRONG_SHORT"
          [] branch = 3 -> "LONG"
          [] branch = 4 -> "SHORT"
          [] OTHER -> "NEUTRAL",
        CASE branch \in {1, 2} -> R(100)
          [] branch \in {3, 4} -> R(55)
          [] OTHER -> R(50),
        [fast_ema |-> Round(fast_ema, 2), slow_ema |-> Round(slow_ema, 2)],
        CASE branch = 1 -> "Golden cross: Fast EMA crossed above Slow EMA"
          [] branch = 2 -> "Death cross: Fast EMA crossed below Slow EMA"
          [] branch = 3 -> "Uptrend: Fast EMA above Slow EMA"
          [] branch = 4 -> "Downtrend: Fast EMA below Slow EMA"
          [] OTHER -> "No crossover")

golden_result(branch, fast_ema, slow_ema) ==
    StrategySignal("Golden Cross",
        CASE branch \in {1, 3} -> "LONG"
          [] branch \in {2, 4} -> "SHORT"
          [] OTHER -> "NEUTRAL",
        CASE branch \in {1, 2} -> R(70)
          [] branch \in {3, 4} -> R(55)
          [] OTHER -> R(50),
        [fast_ema |-> Round(fast_ema, 2), slow_ema |-> Round(slow_ema, 2)],
        CASE branch = 1 -> "Golden cross: Fast EMA crossed above Slow EMA"
          [] branch = 2 -> "Death cross: Fast EMA crossed below Slow EMA"
          [] branch = 3 -> "Uptrend: Fast EMA above Slow EMA"
          [] branch = 4 -> "Downtrend: Fast EMA below Slow EMA"
          [] OTHER -> "No crossover")

golden_signal(fast_ema, slow_ema, prev_fast, prev_slow) ==
    IF IsRaised(fast_ema) \/ IsRaised(slow_ema)
       \/ IsRaised(prev_fast) \/ IsRaised(prev_slow) THEN Raise
    ELSE Returned(golden_result(golden_branch(fast_ema, slow_ema, prev_fast, prev_slow),
                                fast_ema, slow_ema))

golden_emas(closes, fast_ema, slow_ema) ==
    golden_signal(fast_ema, slow_ema,
                  prev_ema(closes, 8, fast_ema), prev_ema(closes, 21, slow_ema))

strategy_golden_cross(candles) ==
    golden_emas(Closes(candles), calculate_ema(Closes(candles), 8),
                calculate_ema(Closes(candles), 21))

macd_branch(m) ==
    IF RGt(m.histogram, R(0)) /\ RGt(m.macd_line, R(0)) THEN 1
    ELSE IF RLt(m.histogram, R(0)) /\ RLt(m.macd_line, R(0)) THEN 2
    ELSE 0

macd_result(branch, m) ==
    StrategySignal("MACD",
        CASE branch = 1 -> "LONG"
          [] branch = 2 -> "SHORT"
          [] OTHER -> "NEUTRAL",
        clamp(IF branch \in {1, 2}
              THEN RAdd(R(60), RMin(RMul(RAbs(m.histogram), R(10)), R(30)))
              ELSE R(50)),
        [macd |-> Round(m.macd_line, 4), signal |-> Round(m.signal_line, 4),
         histogram |-> Round(m.histogram, 4)],
        CASE branch = 1 -> "Bullish MACD: histogram="
          [] branch = 2 -> "Bearish MACD: histogram="
          [] OTHER -> "No clear MACD signal")

macd_signal(m) == Returned(macd_result(macd_branch(m), m))

strategy_macd(candles) ==
    IF Len(candles) = 0 THEN Raise
    ELSE macd_signal(calculate_macd(Closes(candles)))

\* current_vol / avg_vol if avg_vol > 0 else 1.0
vol_ratio_of(current_vol, avg_vol) ==
    IF RGt(avg_vol, R(0)) THEN RDiv(current_vol, avg_vol) ELSE R(1)

\* (closes[-1] - closes[-2]) / closes[-2] if closes[-2] > 0 else 0
price_change_of(last, prev) ==
    IF prev > 0 THEN RDiv(R(last - prev), R(prev)) ELSE R(0)

volume_branch(vol_ratio, price_change) ==
    IF RGt(vol_ratio, R(2)) /\ RGt(price_change, RNorm(1, 100)) THEN 1
    ELSE IF RGt(vol_ratio, RNorm(3, 2)) /\ RGt(price_change, RNorm(5, 1000)) THEN 2
    ELSE IF RGt(vol_ratio, R(2)) /\ RLt(price_change, RNorm(-1, 100)) THEN 3
    ELSE IF RGt(vol_ratio, RNorm(3, 2)) /\ RLt(price_change, RNorm(-5, 1000)) THEN 4
    ELSE 0

volume_result(branch, vol_ratio, price_change) ==
    StrategySignal("Volume Breakout",
        CASE branch = 1 -> "STRONG_LONG"
          [] branch = 2 -> "LONG"
          [] branch = 3 -> "STRONG_SHORT"
          [] branch = 4 -> "SHORT"
          [] OTHER -> "NEUTRAL",
        clamp(CASE branch \in {1, 3} -> RAdd(R(75), RMin(RMul(vol_ratio, R(5)), R(20)))
                [] branch \in {2, 4} -> RAdd(R(60), RMin(RMul(vol_ratio, R(5)), R(20)))
                [] OTHER -> R(50)),
        [vol_ratio |-> Round(vol_ratio, 2),
         price_change |-> Round(RMul(price_change, R(100)), 2)],
        CASE branch = 1 -> "Volume breakout UP: "
          [] branch = 2 -> "High volume UP: "
          [] branch = 3 -> "Volume breakdown: "
          [] branch = 4 -> "High volume DOWN: "
          [] OTHER -> "Normal volume")

volume_signal(vol_ratio, price_change) ==
    Returned(volume_result(volume_branch(vol_ratio, price_change), vol_ratio, price_change))

volume_of(closes, volumes, n) ==
    volume_signal(vol_ratio_of(R(volumes[n]), Mean(SubSeq(volumes, n - 19, n - 1))),
                  price_change_of(closes[n], closes[n - 1]))

strategy_volume_breakout(candles) ==
    IF Len(candles) < 20
    THEN Returned(StrategySignal("Volume Breakout", "NEUTRAL", R(50), <<>>,
                                 "Not enough data"))
    ELSE volume_of(Closes(candles), Volumes(candles), Len(candles))

(***************************************************************************)
(* State.                                                                  *)
(*   heap     the two dict objects: "arg", the mapping the caller passes   *)
(*            to SignalEngine(weights) and keeps a reference to, and       *)
(*            "own", the {} literal of __init__                            *)
(*   engine   the SignalEngine instance: self.weights is a reference into  *)
(*            the heap, self.default_weight a number                       *)
(*   atConstruction   the contents of the weight table when __init__       *)
(*            returned (history, never read by the program)                *)
(*   mutations   number of changes the caller made to its mapping          *)
(*   calls    the analyze() activations: position and local variables      *)
(***************************************************************************)
VARIABLES heap, engine, atConstruction, mutations, calls

vars == <<heap, engine, atConstruction, mutations, calls>>

StrategyNames == <<"RSI Mean Reversion", "Golden Cross", "MACD", "Volume Breakout">>

Names == {StrategyNames[i] : i \in 1..Len(StrategyNames)}

Calls == 1..NumCalls

\* dict.get(k, default)
dict_get(d, k, default) == IF k \in DOMAIN d THEN d[k] ELSE default

\* d[k] = v
dict_set(d, k, v) == [x \in (DOMAIN d) \cup {k} |-> IF x = k THEN v ELSE d[x]]

\* del d[k]
dict_del(d, k) == [x \in (DOMAIN d) \ {k} |-> d[x]]

EmptyDict == [x \in {} |-> 0]

(***************************************************************************)
(* Inputs.                                                                 *)
(***************************************************************************)
Prices == 0..MaxPrice

\* n rows: every close is `base` except the last two, `prev` and `last`;
\* every volume is `vbase` except the last one, `vlast`.  The volumes are
\* an all-zero history, or a history of 1 followed by 1..MaxVolume.
CandleArray(n, base, prev, last, vbase, vlast) ==
    [i \in 1..n |->
        [close |-> IF i = n THEN last ELSE IF i = n - 1 THEN prev ELSE base,
         volume |-> IF i = n THEN vlast ELSE vbase]]

VolumeInputs == {<<0, MaxVolume>>} \cup {<<1, v>> : v \in 1..MaxVolume}

CandleInputs ==
    {CandleArray(n, base, prev, last, vol[1], vol[2]) :
        n \in 0..MaxLen, base \in Prices, prev \in Prices, last \in Prices,
        vol \in VolumeInputs}

\* Weight tables: every strategy absent, 0 or MaxWeight.
WeightTables ==
    UNION {[ks -> {0, MaxWeight}] : ks \in SUBSET Names}

IdleCall ==
    [pc |-> "idle", candles |-> <<>>, price |-> R(0), strategies |-> <<>>,
     i |-> 0, weight |-> 0, total_weight |-> 0, weighted_signal |-> R(0),
     weighted_confidence |-> R(0), avg_signal |-> R(0), avg_confidence |-> R(0),
     result |-> CompositeSignal(R(0), "NEUTRAL", R(0), <<>>), exception |-> "none"]

NoEngine == [constructed |-> FALSE, weights |-> "none", default_weight |-> 0]

(***************************************************************************)
(* SignalEngine.__init__                                                   *)
(***************************************************************************)
\* `weights or {}`: the argument itself unless it is None or empty.
weights_or_empty(passed, h) ==
    IF passed = "None" \/ DOMAIN h[passed] = {} THEN "own" ELSE passed

Construct(passed) ==
    /\ ~engine.constructed
    /\ engine' = [constructed |-> TRUE,
                  weights |-> weights_or_empty(passed, heap),
                  default_weight |-> 1]
    /\ heap' = [heap EXCEPT !["own"] = EmptyDict]
    /\ atConstruction' = heap'[engine'.weights]
    /\ UNCHANGED <<mutations, calls>>

(***************************************************************************)
(* The caller changes the mapping it passed in.                            *)
(***************************************************************************)
CallerSet(k, v) ==
    /\ engine.constructed
    /\ mutations < MaxMutations
    /\ heap' = [heap EXCEPT !["arg"] = dict_set(heap["arg"], k, v)]
    /\ mutations' = mutations + 1
    /\ UNCHANGED <<engine, atConstruction, calls>>

CallerDel(k) ==
    /\ engine.constructed
    /\ mutations < MaxMutations
    /\ k \in DOMAIN heap["arg"]
    /\ heap' = [heap EXCEPT !["arg"] = dict_del(heap["arg"], k)]
    /\ mutations' = mutations + 1
    /\ UNCHANGED <<engine, atConstruction, calls>>

(***************************************************************************)
(* SignalEngine.analyze, one action per step of an activation.             *)
(***************************************************************************)
Call(t, candles) ==
    /\ engine.constructed
    /\ calls[t].pc = "idle"
    /\ calls' = [calls EXCEPT ![t] = [IdleCall EXCEPT !.pc = "price", !.candles = candles]]
    /\ UNCHANGED <<heap, engine, atConstruction, mutations>>

\* price = candles[-1, 4]
after_price(call, price) ==
    IF IsRaised(price)
    THEN [call EXCEPT !.pc = "raised", !.exception = "IndexError"]
    ELSE [call EXCEPT !.pc = "strategies", !.price = price]

ReadPrice(t) ==
    /\ calls[t].pc = "price"
    /\ calls' = [calls EXCEPT ![t] = after_price(@, Last(Closes(@.candles)))]
    /\ UNCHANGED <<heap, engine, atConstruction, mutations>>

\* strategies = [rsi, golden cross, macd, volume breakout]; an exception
\* in one of them ends the activation
after_strategies(call, outs) ==
    IF \E j \in 1..4 : outs[j].raised
    THEN [call EXCEPT !.pc = "raised", !.exception = "IndexError"]
    ELSE [call EXCEPT !.pc = "loop", !.i = 1,
                      !.strategies = [j \in 1..4 |-> outs[j].value]]

RunStrategies(t) ==
    /\ calls[t].pc = "strategies"
    /\ calls' = [calls EXCEPT ![t] =
                    after_strategies(@, <<strategy_rsi_mean_reversion(@.candles),
                                          strategy_golden_cross(@.candles),
                                          strategy_macd(@.candles),
                                          strategy_volume_breakout(@.candles)>>)]
    /\ UNCHANGED <<heap, engine, atConstruction, mutations>>

\* The vote counted at full strength whatever its confidence.
contribution_unscaled(strat, weight) ==
    RMul(R(SignalValue(strat.signal)), R(weight))

\* strat.signal.value * weight * (strat.confidence / 100)
contribution(strat, weight) ==
    RMul(RMul(R(SignalValue(strat.signal)), R(weight)), RDiv(strat.confidence, R(100)))

\* An iteration that takes the weight out of the table (dict.pop) instead
\* of reading it.
AccumulatePop(t) ==
    /\ calls[t].pc = "loop"
    /\ LET c == calls[t]
           strat == c.strategies[c.i]
           weight == dict_get(heap[engine.weights], strat.name, engine.default_weight)
       IN  /\ calls' = [calls EXCEPT ![t] =
                 [@ EXCEPT
                    !.weight = weight,
                    !.weighted_signal =
                        RAdd(c.weighted_signal, contribution(strat, weight)),
                    !.weighted_confidence =
                        RAdd(c.weighted_confidence, RMul(strat.confidence, R(weight))),
                    !.total_weight = c.total_weight + weight,
                    !.i = c.i + 1,
                    !.pc = IF c.i + 1 > Len(c.strategies) THEN "average" ELSE "loop"]]
           /\ heap' = [heap EXCEPT ![engine.weights] = dict_del(@, strat.name)]
    /\ UNCHANGED <<engine, atConstruction, mutations>>

\* one iteration of `for strat in strategies`
Accumulate(t) ==
    /\ calls[t].pc = "loop"
    /\ LET c == calls[t]
           strat == c.strategies[c.i]
           weight == dict_get(heap[engine.weights], strat.name, engine.default_weight)
       IN  calls' = [calls EXCEPT ![t] =
              [@ EXCEPT
                 !.weight = weight,
                 !.weighted_signal =
                     RAdd(c.weighted_signal, contribution(strat, weight)),
                 !.weighted_confidence =
                     RAdd(c.weighted_confidence, RMul(strat.confidence, R(weight))),
                 !.total_weight = c.total_weight + weight,
                 !.i = c.i + 1,
                 !.pc = IF c.i + 1 > Len(c.strategies) THEN "average" ELSE "loop"]]
    /\ UNCHANGED <<heap, engine, atConstruction, mutations>>

\* The averages taken without looking at total_weight.
AverageUnguarded(t) ==
    /\ calls[t].pc = "average"
    /\ LET c == calls[t]
       IN  calls' = [calls EXCEPT ![t] =
              [@ EXCEPT !.pc = "map",
                        !.avg_signal = RDiv(c.weighted_signal, R(c.total_weight)),
                        !.avg_confidence = RDiv(c.weighted_confidence, R(c.total_weight))]]
    /\ UNCHANGED <<heap, engine, atConstruction, mutations>>

\* if total_weight > 0: ... else: ...
Average(t) ==
    /\ calls[t].pc = "average"
    /\ LET c == calls[t]
       IN  calls' = [calls EXCEPT ![t] =
              IF c.total_weight > 0
              THEN [@ EXCEPT !.pc = "map",
                             !.avg_signal = RDiv(c.weighted_signal, R(c.total_weight)),
                             !.avg_confidence = RDiv(c.weighted_confidence, R(c.total_weight))]
              ELSE [@ EXCEPT !.pc = "map", !.avg_signal = R(0), !.avg_confidence = R(50)]]
    /\ UNCHANGED <<heap, engine, atConstruction, mutations>>

\* The chain with strict comparisons.
final_signal_strict(avg_signal) ==
    IF RGt(avg_signal, RNorm(3, 2)) THEN "STRONG_LONG"
    ELSE IF RGt(avg_signal, RNorm(1, 2)) THEN "LONG"
    ELSE IF RLt(avg_signal, RNorm(-3, 2)) THEN "STRONG_SHORT"
    ELSE IF RLt(avg_signal, RNorm(-1, 2)) THEN "SHORT"
    ELSE "NEUTRAL"

\* Map back to SignalType
final_signal(avg_signal) ==
    IF RGe(avg_signal, RNorm(3, 2)) THEN "STRONG_LONG"
    ELSE IF RGe(avg_signal, RNorm(1, 2)) THEN "LONG"
    ELSE IF RLe(avg_signal, RNorm(-3, 2)) THEN "STRONG_SHORT"
    ELSE IF RLe(avg_signal, RNorm(-1, 2)) THEN "SHORT"
    ELSE "NEUTRAL"

\* the if/elif chain and `return CompositeSignal(...)`
MapSignal(t) ==
    /\ calls[t].pc = "map"
    /\ LET c == calls[t]
       IN  calls' = [calls EXCEPT ![t] =
              [@ EXCEPT !.pc = "done",
                        !.result = CompositeSignal(c.price, final_signal(c.avg_signal),
                                                   c.avg_confidence, c.strategies)]]
    /\ UNCHANGED <<heap, engine, atConstruction, mutations>>

\* the caller takes the result (or the exception); the activation ends
Return(t) ==
    /\ calls[t].pc \in {"done", "raised"}
    /\ calls' = [calls EXCEPT ![t] = IdleCall]
    /\ UNCHANGED <<heap, engine, atConstruction, mutations>>

(***************************************************************************)
(* Specifications.                                                         *)
(***************************************************************************)
\* A few weight tables and candle arrays for the specifications that
\* interleave several activations.
SampleTables ==
    {EmptyDict,
     [k \in Names |-> 0],
     [k \in {"MACD", "Golden Cross"} |-> IF k = "MACD" THEN MaxWeight ELSE 0]}

SampleCandles ==
    {CandleArray(0, 1, 1, 1, 1, 1),
     CandleArray(9, 1, 2, 1, 1, 1),
     CandleArray(20, 1, 1, 2, 1, MaxVolume)}

Constructed(h) ==
    [constructed |-> TRUE, weights |-> weights_or_empty("arg", h), default_weight |-> 1]

\* Engine life cycle: construction, caller-side changes of the mapping,
\* and analyze() activations.
Init ==
    /\ heap \in {[arg |-> w, own |-> EmptyDict] : w \in SampleTables}
    /\ engine = NoEngine
    /\ atConstruction = EmptyDict
    /\ mutations = 0
    /\ calls = [t \in Calls |-> IdleCall]

AnalyzeStep(t) ==
    \/ ReadPrice(t)
    \/ RunStrategies(t)
    \/ Accumulate(t)
    \/ Average(t)
    \/ MapSignal(t)

Next ==
    \/ \E passed \in {"arg", "None"} : Construct(passed)
    \/ \E k \in Names, v \in 0..MaxWeight : CallerSet(k, v)
    \/ \E k \in Names : CallerDel(k)
    \/ \E t \in Calls, c \in SampleCandles : Call(t, c)
    \/ \E t \in Calls : AnalyzeStep(t)
    \/ \E t \in Calls : Return(t)

Spec == Init /\ [][Next]_vars

\* Concurrent activations on one constructed engine, nothing else running.
InitConcurrent ==
    /\ heap \in {[arg |-> w, own |-> EmptyDict] : w \in SampleTables}
    /\ engine = Constructed(heap)
    /\ atConstruction = heap[engine.weights]
    /\ mutations = 0
    /\ calls = [t \in Calls |-> IdleCall]

NextConcurrent ==
    \/ \E t \in Calls, c \in SampleCandles : Call(t, c)
    \/ \E t \in Calls : AnalyzeStep(t)
    \/ \E t \in Calls : Return(t)

SpecConcurrent == InitConcurrent /\ [][NextConcurrent]_vars

\* One activation on every candle array of the bounded family, on an engine
\* built without weights (engine = SignalEngine(), as the module's own main).
InitAnalyze ==
    /\ heap = [arg |-> EmptyDict, own |-> EmptyDict]
    /\ engine = Constructed(heap)
    /\ atConstruction = EmptyDict
    /\ mutations = 0
    /\ \E c \in CandleInputs :
          calls = [t \in Calls |->
                     IF t = 1 THEN [IdleCall EXCEPT !.pc = "price", !.candles = c]
                     ELSE IdleCall]

NextAnalyze == \E t \in Calls : AnalyzeStep(t)

SpecAnalyze == InitAnalyze /\ [][NextAnalyze]_vars

\* The aggregation loop alone, on four arbitrary strategy votes and every
\* weight table.
Votes ==
    {<<"STRONG_LONG", 100>>, <<"LONG", 70>>, <<"LONG", 55>>, <<"NEUTRAL", 50>>,
     <<"SHORT", 50>>, <<"STRONG_SHORT", 100>>, <<"LONG", 0>>}

VoteSignal(j, v) == StrategySignal(StrategyNames[j], v[1], R(v[2]), <<>>, "")

InitAggregate ==
    /\ heap \in {[arg |-> w, own |-> EmptyDict] : w \in WeightTables}
    /\ engine = Constructed(heap)
    /\ atConstruction = heap[engine.weights]
    /\ mutations = 0
    /\ \E vs \in [1..4 -> Votes] :
          calls = [t \in Calls |->
                     IF t = 1
                     THEN [IdleCall EXCEPT !.pc = "loop", !.i = 1,
                              !.strategies = [j \in 1..4 |-> VoteSignal(j, vs[j])]]
                     ELSE IdleCall]

NextAggregate ==
    \E t \in Calls : Accumulate(t) \/ Average(t) \/ MapSignal(t)

SpecAggregate == InitAggregate /\ [][NextAggregate]_vars

\* The final if/elif chain alone, on two averages of the grid
\* -2, ..., 2 in steps of 1/(2*AvgHalfSteps).
AvgGrid == {RNorm(k, 2 * AvgHalfSteps) : k \in (-4 * AvgHalfSteps)..(4 * AvgHalfSteps)}

InitDiscretize ==
    /\ heap = [arg |-> EmptyDict, own |-> EmptyDict]
    /\ engine = Constructed(heap)
    /\ atConstruction = EmptyDict
    /\ mutations = 0
    /\ \E a \in AvgGrid, b \in AvgGrid :
          calls = [t \in Calls |->
                     IF t = 1 THEN [IdleCall EXCEPT !.pc = "map", !.avg_signal = a]
                     ELSE IF t = 2 THEN [IdleCall EXCEPT !.pc = "map", !.avg_signal = b]
                     ELSE IdleCall]

NextDiscretize == \E t \in Calls : MapSignal(t)

SpecDiscretize == InitDiscretize /\ [][NextDiscretize]_vars

\* The volume strategy on its full branch: arrays of 20 and 21 rows whose
\* last two closes may be zero or negative (the closes are plain floats,
\* nothing validates their sign).
SignedPrices == (-MaxPrice)..MaxPrice

SignedCandleInputs ==
    {CandleArray(n, base, prev, last, vol[1], vol[2]) :
        n \in 20..21, base \in Prices, prev \in SignedPrices, last \in SignedPrices,
        vol \in VolumeInputs}

InitVolume ==
    /\ heap = [arg |-> EmptyDict, own |-> EmptyDict]
    /\ engine = Constructed(heap)
    /\ atConstruction = EmptyDict
    /\ mutations = 0
    /\ \E c \in SignedCandleInputs :
          calls = [t \in Calls |->
                     IF t = 1 THEN [IdleCall EXCEPT !.pc = "price", !.candles = c]
                     ELSE IdleCall]

NextVolume == \E t \in Calls : AnalyzeStep(t)

SpecVolume == InitVolume /\ [][NextVolume]_vars

(***************************************************************************)
(* Binary64 arithmetic, for the statements that are about exact float      *)
(* values.  A natural number is a little-endian sequence of limbs below    *)
(* 2^15 without a leading zero limb (<<>> is 0); a float is a record       *)
(* [s, m, e] of value s * m * 2^e with s in {-1, 0, 1} and m of exactly 53 *)
(* bits (or 0): round-to-nearest-even after every operation, as IEEE 754   *)
(* prescribes.  Overflow, subnormals, NaN and the sign of zero are outside *)
(* the model.                                                              *)
(***************************************************************************)
Limb == 32768

RECURSIVE BTrim(_)
BTrim(a) ==
    IF Len(a) = 0 \/ a[Len(a)] # 0 THEN a ELSE BTrim(SubSeq(a, 1, Len(a) - 1))

LimbAt(a, i) == IF i <= Len(a) THEN a[i] ELSE 0

RECURSIVE BAddC(_, _, _, _)
BAddC(a, b, i, carry) ==
    IF i > Len(a) /\ i > Len(b)
    THEN IF carry = 0 THEN <<>> ELSE <<carry>>
    ELSE <<(LimbAt(a, i) + LimbAt(b, i) + carry) % Limb>>
         \o BAddC(a, b, i + 1, (LimbAt(a, i) + LimbAt(b, i) + carry) \div Limb)

BAdd(a, b) == BAddC(a, b, 1, 0)

\* a - b for a >= b
RECURSIVE BSubC(_, _, _, _)
BSubC(a, b, i, borrow) ==
    IF i > Len(a) THEN <<>>
    ELSE <<(a[i] - LimbAt(b, i) - borrow + Limb) % Limb>>
         \o BSubC(a, b, i + 1, IF a[i] - LimbAt(b, i) - borrow < 0 THEN 1 ELSE 0)

BSub(a, b) == BTrim(BSubC(a, b, 1, 0))

\* -1, 0, 1 as a < b, a = b, a > b
RECURSIVE BCmpFrom(_, _, _)
BCmpFrom(a, b, i) ==
    IF i = 0 THEN 0
    ELSE IF a[i] < b[i] THEN -1
    ELSE IF a[i] > b[i] THEN 1
    ELSE BCmpFrom(a, b, i - 1)

BCmp(a, b) ==
    IF Len(a) < Len(b) THEN -1
    ELSE IF Len(a) > Len(b) THEN 1
    ELSE BCmpFrom(a, b, Len(a))

\* a * k for 0 <= k < 2^15
RECURSIVE BMulSmallC(_, _, _, _)
BMulSmallC(a, k, i, carry) ==
    IF i > Len(a)
    THEN IF carry = 0 THEN <<>> ELSE <<carry>>
    ELSE <<(a[i] * k + carry) % Limb>>
         \o BMulSmallC(a, k, i + 1, (a[i] * k + carry) \div Limb)

BMulSmall(a, k) == IF k = 0 THEN <<>> ELSE BMulSmallC(a, k, 1, 0)

\* a * 2^(15*n)
BShiftLimbs(a, n) == IF Len(a) = 0 THEN a ELSE [i \in 1..n |-> 0] \o a

RECURSIVE BMulFrom(_, _, _)
BMulFrom(a, b, i) ==
    IF i > Len(b) THEN <<>>
    ELSE BAdd(BShiftLimbs(BMulSmall(a, b[i]), i - 1), BMulFrom(a, b, i + 1))

BMul(a, b) == BMulFrom(a, b, 1)

RECURSIVE Pow2(_)
Pow2(n) == IF n = 0 THEN 1 ELSE 2 * Pow2(n - 1)

RECURSIVE SmallBitLen(_)
SmallBitLen(n) == IF n = 0 THEN 0 ELSE 1 + SmallBitLen(n \div 2)

BitLen(a) == IF Len(a) = 0 THEN 0 ELSE 15 * (Len(a) - 1) + SmallBitLen(a[Len(a)])

\* a * 2^s
BShl(a, s) == BShiftLimbs(BMulSmall(a, Pow2(s % 15)), s \div 15)

\* floor(a / 2^k)
BShrBits(a, d) ==
    BTrim([i \in 1..Len(a) |-> (a[i] \div d) + (LimbAt(a, i + 1) % d) * (Limb \div d)])

BShr(a, k) == BShrBits(SubSeq(a, (k \div 15) + 1, Len(a)), Pow2(k % 15))

\* a mod 2^k
BLow(a, k) ==
    BTrim([i \in 1..((k \div 15) + 1) |->
              IF i <= k \div 15 THEN LimbAt(a, i) ELSE LimbAt(a, i) % Pow2(k % 15)])

BOdd(a) == Len(a) > 0 /\ a[1] % 2 = 1

\* One step of binary long division by d on <<quotient, remainder>>: both
\* doubled, then d taken out of the remainder if it fits.
BDivTake(q, r, d) ==
    IF BCmp(r, d) >= 0 THEN <<BAdd(q, <<1>>), BSub(r, d)>> ELSE <<q, r>>

BDivStep(qr, d) == BDivTake(BMulSmall(qr[1], 2), BMulSmall(qr[2], 2), d)

\* k steps; once the remainder is zero every further quotient bit is zero
RECURSIVE BDivSteps(_, _, _)
BDivSteps(k, qr, d) ==
    IF Len(qr[2]) = 0 THEN <<BShl(qr[1], k), <<>>>>
    ELSE IF k = 0 THEN qr
    ELSE IF k = 1 THEN BDivStep(qr, d)
    ELSE BDivSteps(k - (k \div 2), BDivSteps(k \div 2, qr, d), d)

\* <<floor(n * 2^k / d), the remainder>> for n < 2 * d
BDivModShifted(n, d, k) ==
    BDivSteps(k, IF BCmp(n, d) >= 0 THEN <<<<1>>, BSub(n, d)>> ELSE <<<<>>, n>>, d)

\* The natural number n < 2^30 as limbs.
BNat(n) == BTrim(<<n % Limb, n \div Limb>>)

Float(s, m, e) == [s |-> s, m |-> m, e |-> e]

FZero == Float(0, <<>>, 0)

\* the exponent of the smallest subnormal, 2^-1074
EMin == -1074

\* s * m * 2^e rounded to nearest, ties to even: to 53 bits, or to a multiple
\* of 2^EMin below the normal range (gradual underflow).
RECURSIVE FRound(_, _, _)
FRoundUp(s, q, e, up) == FRound(s, IF up THEN BAdd(q, <<1>>) ELSE q, e)

FRoundCut(s, m, e, k) ==
    FRoundUp(s, BShr(m, k), e + k,
             \/ BCmp(BLow(m, k), BShl(<<1>>, k - 1)) > 0
             \/ BCmp(BLow(m, k), BShl(<<1>>, k - 1)) = 0 /\ BOdd(BShr(m, k)))

\* the exponent of the last kept bit
FTarget(m, e) == IF e + BitLen(m) - 53 >= EMin THEN e + BitLen(m) - 53 ELSE EMin

FRoundTo(s, m, e, t) ==
    IF t <= e THEN Float(s, BShl(m, e - t), t) ELSE FRoundCut(s, m, e, t - e)

FRound(s, m, e) ==
    IF Len(m) = 0 \/ s = 0 THEN FZero ELSE FRoundTo(s, m, e, FTarget(m, e))

\* float(n) for an int n, |n| < 2^30
FInt(n) == FRound(IF n > 0 THEN 1 ELSE IF n < 0 THEN -1 ELSE 0, BNat(IF n < 0 THEN -n ELSE n), 0)

\* a * b
FMul(a, b) == FRound(a.s * b.s, BMul(a.m, b.m), a.e + b.e)

\* a + b: both mantissas brought to the smaller exponent, added or
\* subtracted exactly, then rounded
FAddAligned(sa, ma, sb, mb, e) ==
    IF sa = sb THEN FRound(sa, BAdd(ma, mb), e)
    ELSE IF BCmp(ma, mb) >= 0 THEN FRound(IF BCmp(ma, mb) = 0 THEN 0 ELSE sa, BSub(ma, mb), e)
    ELSE FRound(sb, BSub(mb, ma), e)

FAdd(a, b) ==
    IF a.s = 0 THEN b
    ELSE IF b.s = 0 THEN a
    ELSE IF a.e >= b.e THEN FAddAligned(a.s, BShl(a.m, a.e - b.e), b.s, b.m, b.e)
    ELSE FAddAligned(a.s, a.m, b.s, BShl(b.m, b.e - a.e), a.e)

FNeg(a) == Float(-a.s, a.m, a.e)

\* a / b for b # 0: 57 quotient bits and a sticky bit, then rounded
FDivRound(s, qr, e) ==
    FRound(s, BAdd(BMulSmall(qr[1], 2), IF Len(qr[2]) = 0 THEN <<>> ELSE <<1>>), e)

\* both mantissas brought to 53 bits
FDivNormal(s, ma, ea, mb, eb) ==
    FDivRound(s, BDivModShifted(BShl(ma, 53 - BitLen(ma)), BShl(mb, 53 - BitLen(mb)), 56),
              (ea - (53 - BitLen(ma))) - (eb - (53 - BitLen(mb))) - 57)

FDiv(a, b) ==
    IF a.s = 0 THEN FZero ELSE FDivNormal(a.s * b.s, a.m, a.e, b.m, b.e)

\* the sign of a - b
FCmp(a, b) == FAdd(a, FNeg(b)).s

FGe(a, b) == FCmp(a, b) >= 0

FLe(a, b) == FCmp(a, b) <= 0

FGt(a, b) == FCmp(a, b) > 0

(***************************************************************************)
(* The aggregation of analyze in binary64, on candle arrays too short for  *)
(* the fast EMA and on weight tables holding floats.  Below 12 rows every  *)
(* strategy confidence is a whole number (50, 55 or 70), which FConf       *)
(* converts without error.                                                 *)
(***************************************************************************)
FastPeriod == 8

\* the float of a confidence n/d
FConf(confidence) ==
    IF confidence[2] = 1 THEN FInt(confidence[1])
    ELSE FDiv(FInt(confidence[1]), FInt(confidence[2]))

\* the weights a caller writes: 0.0, 0.1 and 2.0
FTenth == Float(1, <<6554, 13107, 26214, 204>>, -56)

FloatWeights == {FZero, FTenth, FInt(2)}

FloatWeightTables == UNION {[ks -> FloatWeights] : ks \in SUBSET Names}

ShortCandleInputs ==
    {CandleArray(n, 1, prev, last, 1, MaxVolume) :
        n \in 1..FastPeriod, prev \in Prices, last \in Prices}

\* one iteration of `for strat in strategies`
accumulate64(call, value, confidence, weight) ==
    [call EXCEPT
       !.weight = weight,
       !.weighted_signal =
           FAdd(@, FMul(FMul(FInt(value), weight), FDiv(confidence, FInt(100)))),
       !.weighted_confidence = FAdd(@, FMul(confidence, weight)),
       !.total_weight = FAdd(@, weight),
       !.i = @ + 1,
       !.pc = IF call.i + 1 > Len(call.strategies) THEN "average" ELSE "loop"]

Accumulate64(t) ==
    /\ calls[t].pc = "loop"
    /\ calls' = [calls EXCEPT ![t] =
          accumulate64(@, SignalValue(@.strategies[@.i].signal),
                       FConf(@.strategies[@.i].confidence),
                       dict_get(heap[engine.weights], @.strategies[@.i].name,
                                engine.default_weight))]
    /\ UNCHANGED <<heap, engine, atConstruction, mutations>>

\* if total_weight > 0: ... else: ...
Average64(t) ==
    /\ calls[t].pc = "average"
    /\ calls' = [calls EXCEPT ![t] =
          IF FGt(@.total_weight, FZero)
          THEN [@ EXCEPT !.pc = "map",
                         !.avg_signal =
                             FDiv(calls[t].weighted_signal, calls[t].total_weight),
                         !.avg_confidence =
                             FDiv(calls[t].weighted_confidence, calls[t].total_weight)]
          ELSE [@ EXCEPT !.pc = "map", !.avg_signal = FInt(0), !.avg_confidence = FInt(50)]]
    /\ UNCHANGED <<heap, engine, atConstruction, mutations>>

\* Map back to SignalType
FHalf == FDiv(FInt(1), FInt(2))

FThreeHalves == FDiv(FInt(3), FInt(2))

final_signal64(avg_signal) ==
    IF FGe(avg_signal, FThreeHalves) THEN "STRONG_LONG"
    ELSE IF FGe(avg_signal, FHalf) THEN "LONG"
    ELSE IF FLe(avg_signal, FNeg(FThreeHalves)) THEN "STRONG_SHORT"
    ELSE IF FLe(avg_signal, FNeg(FHalf)) THEN "SHORT"
    ELSE "NEUTRAL"

MapSignal64(t) ==
    /\ calls[t].pc = "map"
    /\ calls' = [calls EXCEPT ![t] =
          [@ EXCEPT !.pc = "done",
                    !.result = CompositeSignal(calls[t].price,
                                               final_signal64(calls[t].avg_signal),
                                               calls[t].avg_confidence,
                                               calls[t].strategies)]]
    /\ UNCHANGED <<heap, engine, atConstruction, mutations>>

\* the locals of analyze as floats
IdleCall64 ==
    [IdleCall EXCEPT !.weight = FZero, !.total_weight = FZero,
                     !.weighted_signal = FZero, !.weighted_confidence = FZero,
                     !.avg_signal = FZero, !.avg_confidence = FZero]

InitShort ==
    /\ heap \in {[arg |-> w, own |-> EmptyDict] : w \in FloatWeightTables}
    /\ engine = [Constructed(heap) EXCEPT !.default_weight = FInt(1)]
    /\ atConstruction = heap[engine.weights]
    /\ mutations = 0
    /\ \E c \in ShortCandleInputs :
          calls = [t \in Calls |->
                     IF t = 1 THEN [IdleCall64 EXCEPT !.pc = "price", !.candles = c]
                     ELSE IdleCall64]

NextShort ==
    \E t \in Calls :
        \/ ReadPrice(t)
        \/ RunStrategies(t)
        \/ Accumulate64(t)
        \/ Average64(t)
        \/ MapSignal64(t)

SpecShort == InitShort /\ [][NextShort]_vars

(***************************************************************************)
(* strategy_macd in binary64.  The closes are whole numbers of a unit: 1,  *)
(* or the smallest subnormal 2^EMin or 8 of them, where products round to  *)
(* multiples of 2^EMin.                                                    *)
(***************************************************************************)
MacdRows == 13

Units == {FInt(1), Float(1, <<1>>, EMin), Float(1, <<8>>, EMin)}

FloatCandles(candles, unit) ==
    [i \in 1..Len(candles) |->
        [close |-> FMul(FInt(candles[i].close), unit),
         volume |-> FInt(candles[i].volume)]]

MacdCandleInputs ==
    {FloatCandles(CandleArray(n, base, prev, last, 1, MaxVolume), unit) :
        n \in 0..MacdRows, base \in Prices, prev \in Prices, last \in Prices,
        unit \in Units}

FLt(a, b) == FCmp(a, b) < 0

FAbs(a) == Float(a.s * a.s, a.m, a.e)

FMin(a, b) == IF FLt(b, a) THEN b ELSE a

\* np.rint
FRint(a) == IF a.e >= 0 \/ a.s = 0 THEN a ELSE FRoundCut(a.s, a.m, a.e, -a.e)

\* round(x, 4) of a numpy float: scaled, rounded to an integer, scaled back
Round64(x) == FDiv(FRint(FMul(x, FInt(10000))), FInt(10000))

\* (price * multiplier) + (ema * (1 - multiplier)); a zero ema adds nothing
ema_step64(ema, price, multiplier, rest) ==
    IF ema.s = 0 THEN FMul(price, multiplier)
    ELSE FAdd(FMul(price, multiplier), FMul(ema, rest))

\* for price in closes[1:]: ema = ...
RECURSIVE ema_loop64(_, _, _, _, _)
ema_loop64(ema, closes, i, multiplier, rest) ==
    IF i > Len(closes) THEN ema
    ELSE ema_loop64(ema_step64(ema, closes[i], multiplier, rest),
                    closes, i + 1, multiplier, rest)

ema_from64(closes, multiplier) ==
    ema_loop64(closes[1], closes, 2, multiplier, FAdd(FInt(1), FNeg(multiplier)))

\* for a non-empty series
calculate_ema64(closes, period) ==
    IF Len(closes) < period THEN closes[Len(closes)]
    ELSE ema_from64(closes, FDiv(FInt(2), FInt(period + 1)))

\* 0.9
FNineTenths == FDiv(FInt(9), FInt(10))

macd_tuple64(macd_line, signal_line) ==
    [macd_line |-> macd_line, signal_line |-> signal_line,
     histogram |-> FAdd(macd_line, FNeg(signal_line))]

\* The signal line above the MACD line in magnitude: macd_line * 1.5.
macd_of64_signal_above(macd_line) ==
    macd_tuple64(macd_line, FMul(macd_line, FThreeHalves))

macd_of64(macd_line) == macd_tuple64(macd_line, FMul(macd_line, FNineTenths))

calculate_macd64(closes) ==
    macd_of64(FAdd(calculate_ema64(closes, 12), FNeg(calculate_ema64(closes, 26))))

macd_branch64(m) ==
    IF FGt(m.histogram, FZero) /\ FGt(m.macd_line, FZero) THEN 1
    ELSE IF FLt(m.histogram, FZero) /\ FLt(m.macd_line, FZero) THEN 2
    ELSE 0

macd_result64(branch, m) ==
    StrategySignal("MACD",
        CASE branch = 1 -> "LONG"
          [] branch = 2 -> "SHORT"
          [] OTHER -> "NEUTRAL",
        FMin(IF branch \in {1, 2}
             THEN FAdd(FInt(60), FMin(FMul(FAbs(m.histogram), FInt(10)), FInt(30)))
             ELSE FInt(50),
             FInt(100)),
        [macd |-> Round64(m.macd_line), signal |-> Round64(m.signal_line),
         histogram |-> Round64(m.histogram)],
        CASE branch = 1 -> "Bullish MACD: histogram="
          [] branch = 2 -> "Bearish MACD: histogram="
          [] OTHER -> "No clear MACD signal")

macd_signal64(m) == Returned([vote |-> macd_result64(macd_branch64(m), m), locals |-> m])

strategy_macd64(candles) ==
    IF Len(candles) = 0 THEN Raise
    ELSE macd_signal64(calculate_macd64(Closes(candles)))

\* the call returns its StrategySignal, or the IndexError of closes[-1]
\* escapes; the activation's macd_line, signal_line and histogram are kept
\* in `result`
after_macd(call, out) ==
    IF out.raised
    THEN [call EXCEPT !.pc = "raised", !.exception = "IndexError"]
    ELSE [call EXCEPT !.pc = "done", !.strategies = <<out.value.vote>>,
                      !.result = out.value.locals]

StrategyMacd64(t) ==
    /\ calls[t].pc = "macd"
    /\ calls' = [calls EXCEPT ![t] = after_macd(@, strategy_macd64(@.candles))]
    /\ UNCHANGED <<heap, engine, atConstruction, mutations>>

InitMacd ==
    /\ heap = [arg |-> EmptyDict, own |-> EmptyDict]
    /\ engine = [Constructed(heap) EXCEPT !.default_weight = FInt(1)]
    /\ atConstruction = heap[engine.weights]
    /\ mutations = 0
    /\ \E c \in MacdCandleInputs :
          calls = [t \in Calls |->
                     IF t = 1 THEN [IdleCall64 EXCEPT !.pc = "macd", !.candles = c]
                     ELSE IdleCall64]

NextMacd == \E t \in Calls : StrategyMacd64(t)

SpecMacd == InitMacd /\ [][NextMacd]_vars

(***************************************************************************)
(* Properties.                                                             *)
(***************************************************************************)
\* The activations whose strategies have returned.
HasStrategies(t) == calls[t].pc \in {"loop", "average", "map", "done"}

\* C1: for every non-empty candle array, each of the four StrategySignal
\* values the strategies return has a confidence c with 0 <= c <= 100.
C1_ConfidenceInRange ==
    \A t \in Calls :
        HasStrategies(t) /\ Len(calls[t].candles) >= 1 =>
            \A j \in 1..4 :
                /\ RGe(calls[t].strategies[j].confidence, R(0))
                /\ RLe(calls[t].strategies[j].confidence, R(100))

\* C1 witness: RSI = 100 above the upper band, so 80 + (RSI - 70) = 110 is
\* computed and the returned confidence is 100.
C1_CappedAtHundred ==
    \E t \in Calls :
        /\ HasStrategies(t)
        /\ calls[t].strategies[1].signal = "STRONG_SHORT"
        /\ calls[t].strategies[1].indicators.rsi = R(100)
        /\ calls[t].strategies[1].confidence = R(100)

\* C2: for every candle array with at least one row (lengths 1, 2, 19, 20
\* and 21 included), no step of analyze raises, and what analyze returns is
\* a CompositeSignal whose signal is one of the five SignalType values and
\* whose strategies list holds exactly the four StrategySignal values.
C2_AnalyzeNeverRaises ==
    \A t \in Calls :
        Len(calls[t].candles) >= 1 =>
            /\ calls[t].pc # "raised"
            /\ calls[t].exception = "none"
            /\ calls[t].pc = "done" =>
                  /\ calls[t].result.signal \in SignalType
                  /\ Len(calls[t].result.strategies) = 4
                  /\ \A j \in 1..4 :
                        /\ calls[t].result.strategies[j].name = StrategyNames[j]
                        /\ calls[t].result.strategies[j].signal \in SignalType

\* C2 witness: analyze has returned for a single-row array.
C2_SingleRowReturned ==
    \E t \in Calls : calls[t].pc = "done" /\ Len(calls[t].candles) = 1

\* C3: analyze on an empty candle array fails with a distinguishable
\* "invalid input" error before any strategy is computed, and returns no
\* CompositeSignal.
C3_EmptyArrayRejected ==
    \A t \in Calls :
        calls[t].pc \notin {"idle", "price"} /\ Len(calls[t].candles) = 0 =>
            /\ calls[t].pc = "raised"
            /\ calls[t].exception = "InvalidInput"
            /\ calls[t].strategies = <<>>

\* C4: every analyze call weights each strategy with the value the weight
\* table held when SignalEngine(weights) returned (1.0 for names absent
\* then), whatever the caller did to the mapping it passed in since.
C4_WeightsFixedAtConstruction ==
    \A t \in Calls :
        calls[t].pc \in {"loop", "average"} /\ calls[t].i > 1 =>
            calls[t].weight =
                dict_get(atConstruction, StrategyNames[calls[t].i - 1], 1)

(***************************************************************************)
(* The aggregation as the specification words it, for a list of four       *)
(* strategy signals and a weight table.                                    *)
(***************************************************************************)
WeightOf(table, name) == IF name \in DOMAIN table THEN table[name] ELSE 1

RECURSIVE RSum(_)
RSum(xs) == IF Len(xs) = 0 THEN R(0) ELSE RAdd(Head(xs), RSum(Tail(xs)))

TotalWeight(strats, table) ==
    SumSeq([j \in 1..Len(strats) |-> WeightOf(table, strats[j].name)])

\* sum(value_i * w_i * confidence_i / 100)
SignalSum(strats, table) ==
    RSum([j \in 1..Len(strats) |->
            RDiv(RMul(R(SignalValue(strats[j].signal) * WeightOf(table, strats[j].name)),
                      strats[j].confidence),
                 R(100))])

\* sum(confidence_i * w_i)
ConfidenceSum(strats, table) ==
    RSum([j \in 1..Len(strats) |->
            RMul(strats[j].confidence, R(WeightOf(table, strats[j].name)))])

\* >= 1.5 STRONG_LONG; >= 0.5 LONG; <= -1.5 STRONG_SHORT; <= -0.5 SHORT;
\* otherwise NEUTRAL
Discretize(avg) ==
    CASE RGe(avg, RNorm(3, 2)) -> "STRONG_LONG"
      [] RLt(avg, RNorm(3, 2)) /\ RGe(avg, RNorm(1, 2)) -> "LONG"
      [] RLe(avg, RNorm(-3, 2)) -> "STRONG_SHORT"
      [] RGt(avg, RNorm(-3, 2)) /\ RLe(avg, RNorm(-1, 2)) -> "SHORT"
      [] OTHER -> "NEUTRAL"

AggregateOver(strats, total, signal_sum, confidence_sum) ==
    IF total > 0
    THEN [signal |-> Discretize(RDiv(signal_sum, R(total))),
          confidence |-> RDiv(confidence_sum, R(total)),
          votes |-> [j \in 1..Len(strats) |-> strats[j].signal]]
    ELSE [signal |-> "NEUTRAL", confidence |-> R(50),
          votes |-> [j \in 1..Len(strats) |-> strats[j].signal]]

Aggregate(strats, table) ==
    AggregateOver(strats, TotalWeight(strats, table), SignalSum(strats, table),
                  ConfidenceSum(strats, table))

\* What analyze returns for `candles` on an engine with weight table
\* `table` when nothing else runs: signal, confidence, per-strategy signals.
AloneResult(candles, table) ==
    Aggregate(<<strategy_rsi_mean_reversion(candles).value,
                strategy_golden_cross(candles).value,
                strategy_macd(candles).value,
                strategy_volume_breakout(candles).value>>, table)

\* The same three parts of a CompositeSignal.
Returns(result) ==
    [signal |-> result.signal, confidence |-> result.confidence,
     votes |-> [j \in 1..Len(result.strategies) |-> result.strategies[j].signal]]

\* C5: in every interleaving of concurrent analyze calls on one engine, no
\* step writes the engine's weights, its default weight or a call's candle
\* array, and each call returns the signal, confidence and per-strategy
\* signals that the call returns when run alone on the same candle array
\* and weight table.
C5_ConcurrentCallsIsolated ==
    [][/\ heap' = heap
       /\ engine' = engine
       /\ \A t \in Calls :
             /\ calls[t].pc # "idle" /\ calls'[t].pc # "idle" =>
                   calls'[t].candles = calls[t].candles
             /\ calls[t].pc = "map" /\ calls'[t].pc = "done" =>
                   Returns(calls'[t].result) =
                       AloneResult(calls[t].candles, atConstruction)]_vars

\* C5 witness: one call has returned while another, on a different candle
\* array, is in the middle of its aggregation loop.
C5_OverlappingCalls ==
    \E t \in Calls, u \in Calls :
        /\ t # u
        /\ calls[t].pc = "done"
        /\ calls[u].pc = "loop" /\ calls[u].i = 3
        /\ calls[t].candles # calls[u].candles

\* The weight table in use, and the (signal, confidence) pairs of a call's
\* strategies.
Table == heap[engine.weights]

VotesOf(t) ==
    {<<calls[t].strategies[j].signal, calls[t].strategies[j].confidence>> : j \in 1..4}

UniformPositive(table) ==
    /\ WeightOf(table, StrategyNames[1]) > 0
    /\ \A j \in 2..4 : WeightOf(table, StrategyNames[j]) = WeightOf(table, StrategyNames[1])

\* C6: for four StrategySignals and non-negative weights of positive total,
\* the composite confidence is sum(confidence_i * w_i) / sum(w_i) and the
\* final signal is the discretization of
\* sum(value_i * w_i * confidence_i/100) / sum(w_i); LONG(70), LONG(55),
\* NEUTRAL(50), SHORT(50) with uniform weights give LONG or NEUTRAL; all
\* confidences 0 with uniform positive weights give composite confidence 0.
C6_WeightedAverage ==
    \A t \in Calls :
        calls[t].pc = "done" /\ TotalWeight(calls[t].strategies, Table) > 0 =>
            /\ calls[t].result.confidence =
                  RDiv(ConfidenceSum(calls[t].strategies, Table),
                       R(TotalWeight(calls[t].strategies, Table)))
            /\ calls[t].result.signal =
                  Discretize(RDiv(SignalSum(calls[t].strategies, Table),
                                  R(TotalWeight(calls[t].strategies, Table))))
            /\ ( /\ UniformPositive(Table)
                 /\ VotesOf(t) = {<<"LONG", R(70)>>, <<"LONG", R(55)>>,
                                  <<"NEUTRAL", R(50)>>, <<"SHORT", R(50)>>}
                 => calls[t].result.signal \in {"LONG", "NEUTRAL"} )
            /\ ( /\ UniformPositive(Table)
                 /\ \A j \in 1..4 : calls[t].strategies[j].confidence = R(0)
                 => calls[t].result.confidence = R(0) )

\* C6 witness: the scenario LONG(70), LONG(55), NEUTRAL(50), SHORT(50) has
\* been aggregated with every weight MaxWeight.
C6_ScenarioAggregated ==
    \E t \in Calls :
        /\ calls[t].pc = "done"
        /\ \A k \in Names : WeightOf(Table, k) = MaxWeight
        /\ VotesOf(t) = {<<"LONG", R(70)>>, <<"LONG", R(55)>>,
                         <<"NEUTRAL", R(50)>>, <<"SHORT", R(50)>>}
        /\ calls[t].result.signal = "NEUTRAL"
        /\ calls[t].result.confidence = RNorm(225, 4)

\* C7: when every strategy's weight is zero, analyze divides by nothing and
\* returns composite confidence 50 and final signal NEUTRAL, whatever the
\* four votes and confidences are.
C7_ZeroTotalWeightFallback ==
    \A t \in Calls :
        (\A k \in Names : WeightOf(Table, k) = 0) =>
            /\ calls[t].pc \in {"map", "done"} =>
                  /\ calls[t].total_weight = 0
                  /\ calls[t].avg_signal = R(0)
                  /\ calls[t].avg_confidence = R(50)
            /\ calls[t].pc = "done" =>
                  /\ calls[t].result.signal = "NEUTRAL"
                  /\ calls[t].result.confidence = R(50)

\* C7 witness: four STRONG_LONG votes of confidence 100, all weighted 0,
\* have been aggregated to NEUTRAL with confidence 50.
C7_StrongVotesZeroWeights ==
    \E t \in Calls :
        /\ calls[t].pc = "done"
        /\ \A k \in Names : WeightOf(Table, k) = 0
        /\ VotesOf(t) = {<<"STRONG_LONG", R(100)>>}
        /\ calls[t].result.signal = "NEUTRAL"
        /\ calls[t].result.confidence = R(50)

\* C8: the discretization of avgSignal is monotonic (a < b implies the
\* value of the SignalType for a is <= that for b), with the classes at
\* exactly >= 1.5 STRONG_LONG, >= 0.5 LONG, <= -1.5 STRONG_SHORT,
\* <= -0.5 SHORT, and NEUTRAL strictly between -0.5 and 0.5.
C8_DiscretizationMonotonic ==
    \A t \in Calls :
        calls[t].pc = "done" =>
            /\ calls[t].result.signal = "STRONG_LONG" <=>
                  RGe(calls[t].avg_signal, RNorm(3, 2))
            /\ calls[t].result.signal = "LONG" <=>
                  RGe(calls[t].avg_signal, RNorm(1, 2)) /\ RLt(calls[t].avg_signal, RNorm(3, 2))
            /\ calls[t].result.signal = "NEUTRAL" <=>
                  RGt(calls[t].avg_signal, RNorm(-1, 2)) /\ RLt(calls[t].avg_signal, RNorm(1, 2))
            /\ calls[t].result.signal = "SHORT" <=>
                  RGt(calls[t].avg_signal, RNorm(-3, 2)) /\ RLe(calls[t].avg_signal, RNorm(-1, 2))
            /\ calls[t].result.signal = "STRONG_SHORT" <=>
                  RLe(calls[t].avg_signal, RNorm(-3, 2))
            /\ \A u \in Calls :
                  calls[u].pc = "done" /\ RLt(calls[t].avg_signal, calls[u].avg_signal) =>
                      SignalValue(calls[t].result.signal) <= SignalValue(calls[u].result.signal)

\* C8 witness: two averages on either side of a boundary have been mapped,
\* 1/2 - 1/(2*AvgHalfSteps) to NEUTRAL and exactly 1/2 to LONG.
C8_BoundaryMapped ==
    \E t \in Calls, u \in Calls :
        /\ calls[t].pc = "done" /\ calls[u].pc = "done"
        /\ calls[t].avg_signal = RNorm(AvgHalfSteps - 1, 2 * AvgHalfSteps)
        /\ calls[t].result.signal = "NEUTRAL"
        /\ calls[u].avg_signal = RNorm(1, 2)
        /\ calls[u].result.signal = "LONG"

\* The activations whose strategies have just returned.
StrategiesReturned(t) == calls[t].pc = "loop" /\ calls[t].i = 1

\* The classification table of the RSI mean-reversion strategy, first match
\* wins: <<signal, confidence>>.
RsiTable(rsi, price, bb) ==
    IF RLt(rsi, R(30)) /\ LtSurd(price, bb.lower)
    THEN <<"STRONG_LONG", RMin(R(100), RAdd(R(80), RSub(R(30), rsi)))>>
    ELSE IF RLt(rsi, R(35)) /\ RLt(price, bb.mid)
    THEN <<"LONG", RMin(R(100), RAdd(R(60), RSub(R(35), rsi)))>>
    ELSE IF RGt(rsi, R(70)) /\ GtSurd(price, bb.upper)
    THEN <<"STRONG_SHORT", RMin(R(100), RAdd(R(80), RSub(rsi, R(70))))>>
    ELSE IF RGt(rsi, R(65)) /\ RGt(price, bb.mid)
    THEN <<"SHORT", RMin(R(100), RAdd(R(60), RSub(rsi, R(65))))>>
    ELSE <<"NEUTRAL", R(50)>>

RsiClassified(strat, rsi, price, bb) ==
    /\ <<strat.signal, strat.confidence>> = RsiTable(rsi, price, bb)
    /\ RGt(rsi, R(70)) /\ GtSurd(price, bb.upper) => strat.signal = "STRONG_SHORT"

\* C9: strategy_rsi_mean_reversion classifies by first match in the order
\* RSI<30 and price<lower band -> STRONG_LONG, min(100, 80+(30-RSI));
\* RSI<35 and price<mid band -> LONG, min(100, 60+(35-RSI)); RSI>70 and
\* price>upper band -> STRONG_SHORT, min(100, 80+(RSI-70)); RSI>65 and
\* price>mid band -> SHORT, min(100, 60+(RSI-65)); otherwise NEUTRAL, 50.
\* Every input with RSI>70 and last close above the upper band yields
\* STRONG_SHORT.
C9_RsiClassification ==
    \A t \in Calls :
        StrategiesReturned(t) =>
            RsiClassified(calls[t].strategies[1],
                          calculate_rsi(Closes(calls[t].candles), 14),
                          Last(Closes(calls[t].candles)),
                          calculate_bollinger_bands(Closes(calls[t].candles), 20, 2))

\* C9 witness: a rise at the end of a flat series of more than 20 rows: RSI
\* is above 70 and the last close above the upper band, both overbought
\* tests match, and the strategy has returned STRONG_SHORT.
C9_OverboughtAboveBand ==
    \E t \in Calls :
        /\ StrategiesReturned(t)
        /\ Len(calls[t].candles) > 20
        /\ RGt(calculate_rsi(Closes(calls[t].candles), 14), R(70))
        /\ GtSurd(Last(Closes(calls[t].candles)),
                  calculate_bollinger_bands(Closes(calls[t].candles), 20, 2).upper)
        /\ calls[t].strategies[1].signal = "STRONG_SHORT"

\* EMA(8) <= EMA(21) on the series without its last point and
\* EMA(8) > EMA(21) on the full series.
FreshGoldenCross(closes) ==
    /\ Len(closes) >= 2
    /\ RLe(calculate_ema(AllButLast(closes), 8), calculate_ema(AllButLast(closes), 21))
    /\ RGt(calculate_ema(closes, 8), calculate_ema(closes, 21))

GoldenCrossReported(strat, closes) ==
    /\ FreshGoldenCross(closes) =>
          /\ strat.signal = "LONG"
          /\ strat.confidence = R(70)
          /\ strat.reason = "Golden cross: Fast EMA crossed above Slow EMA"
    /\ strat.confidence = R(55) =>
          /\ calculate_ema(closes, 8) # calculate_ema(closes, 21)
          /\ ~FreshGoldenCross(closes)
    /\ Len(closes) = 1 =>
          /\ strat.signal = "NEUTRAL"
          /\ strat.confidence = R(50)
          /\ strat.reason = "No crossover"

\* C10: strategy_golden_cross returns LONG with confidence 70 and a reason
\* naming a golden cross whenever EMA(8) <= EMA(21) on the series without
\* its last point and EMA(8) > EMA(21) on the full series; it returns
\* confidence 55 only when fast and slow differ without such a fresh cross;
\* for a series of one point no crossover is reported and the result is
\* NEUTRAL with confidence 50.
C10_GoldenCross ==
    \A t \in Calls :
        StrategiesReturned(t) =>
            GoldenCrossReported(calls[t].strategies[2], Closes(calls[t].candles))

\* C10 witness: on a series longer than 21 rows the fast EMA was strictly
\* below the slow one before the last point and is above it with it, and
\* the strategy has returned LONG with confidence 70.
C10_CrossOnLastPoint ==
    \E t \in Calls :
        /\ StrategiesReturned(t)
        /\ Len(calls[t].candles) > 21
        /\ RLt(calculate_ema(AllButLast(Closes(calls[t].candles)), 8),
               calculate_ema(AllButLast(Closes(calls[t].candles)), 21))
        /\ FreshGoldenCross(Closes(calls[t].candles))
        /\ calls[t].strategies[2].signal = "LONG"
        /\ calls[t].strategies[2].confidence = R(70)

\* priceChange and volumeRatio as the specification words them.
StatedPriceChange(last, prev) ==
    IF prev = 0 THEN R(0) ELSE RDiv(R(last - prev), R(prev))

StatedVolumeRatio(current_vol, avg_vol) ==
    IF avg_vol = R(0) THEN R(1) ELSE RDiv(R(current_vol), avg_vol)

VolumeIndicatorsAsStated(strat, closes, volumes, n) ==
    /\ strat.indicators.price_change =
          Round(RMul(StatedPriceChange(closes[n], closes[n - 1]), R(100)), 2)
    /\ strat.indicators.vol_ratio =
          Round(StatedVolumeRatio(volumes[n], Mean(SubSeq(volumes, n - 19, n - 1))), 2)
    /\ ~IsRaised(strat.confidence)
    /\ ~IsRaised(strat.indicators.price_change)
    /\ ~IsRaised(strat.indicators.vol_ratio)

\* C11: in strategy_volume_breakout with at least 20 rows, priceChange is
\* (lastClose - prevClose)/prevClose for every prevClose other than 0 and 0
\* when prevClose is 0, volumeRatio is currentVolume / mean(previous 19
\* volumes) and 1.0 when that mean is 0; nothing is divided by zero and the
\* returned confidence and indicator values are numbers.
C11_VolumeGuards ==
    \A t \in Calls :
        StrategiesReturned(t) /\ Len(calls[t].candles) >= 20 =>
            VolumeIndicatorsAsStated(calls[t].strategies[4], Closes(calls[t].candles),
                                     Volumes(calls[t].candles), Len(calls[t].candles))

\* C12: with the default weight table (every strategy weighted 1.0),
\* Golden Cross and MACD vote at most LONG/SHORT with confidence at most 70
\* and 90, the weighted average signal stays strictly between -1.5 and 1.5,
\* and analyze never returns STRONG_LONG or STRONG_SHORT.
C12_DefaultWeightsNeverStrong ==
    \A t \in Calls :
        (\A k \in Names : WeightOf(Table, k) = 1) =>
            /\ HasStrategies(t) =>
                  /\ calls[t].strategies[2].signal \in {"LONG", "NEUTRAL", "SHORT"}
                  /\ RLe(calls[t].strategies[2].confidence, R(70))
                  /\ calls[t].strategies[3].signal \in {"LONG", "NEUTRAL", "SHORT"}
                  /\ RLe(calls[t].strategies[3].confidence, R(90))
            /\ calls[t].pc \in {"map", "done"} =>
                  /\ calls[t].total_weight = 4
                  /\ RGt(calls[t].avg_signal, RNorm(-3, 2))
                  /\ RLt(calls[t].avg_signal, RNorm(3, 2))
            /\ calls[t].pc = "done" =>
                  calls[t].result.signal \in {"LONG", "NEUTRAL", "SHORT"}

\* C12 witness: RSI and Volume Breakout both vote STRONG_SHORT on the same
\* array; the average is at or below -1 and analyze has returned SHORT.
C12_StrongVoteCompositeShort ==
    \E t \in Calls :
        /\ calls[t].pc = "done"
        /\ \A k \in Names : WeightOf(Table, k) = 1
        /\ calls[t].strategies[1].signal = "STRONG_SHORT"
        /\ calls[t].strategies[4].signal = "STRONG_SHORT"
        /\ RLe(calls[t].avg_signal, R(-1))
        /\ calls[t].result.signal = "SHORT"

\* The activations on an array too short for every indicator: 1 to 7 rows.
TooShort(t) == Len(calls[t].candles) >= 1 /\ Len(calls[t].candles) < FastPeriod

\* All four strategies have voted NEUTRAL with confidence 50.
AllNeutralFifty(t) ==
    \A j \in 1..4 :
        /\ calls[t].strategies[j].signal = "NEUTRAL"
        /\ calls[t].strategies[j].confidence = R(50)

\* |a - b| <= 2^-44
Within44(a, b) ==
    /\ FLe(FAdd(a, FNeg(b)), Float(1, BShl(<<1>>, 52), -96))
    /\ FGe(FAdd(a, FNeg(b)), Float(-1, BShl(<<1>>, 52), -96))

\* C13 as stated: on every array of 1 to 7 rows and under every table of
\* non-negative weights all four strategies vote NEUTRAL with confidence 50
\* and analyze returns NEUTRAL with a composite confidence equal to 50.
C13_ShortArrayExactlyFifty ==
    \A t \in Calls :
        TooShort(t) =>
            /\ HasStrategies(t) => AllNeutralFifty(t)
            /\ calls[t].pc = "done" =>
                  /\ calls[t].result.signal = "NEUTRAL"
                  /\ calls[t].result.confidence = FInt(50)

\* C13 amended: on every array of 1 to 7 rows and under every table of
\* non-negative weights all four strategies vote NEUTRAL with confidence 50
\* and analyze returns NEUTRAL; the composite confidence is exactly 50 when
\* the total weight is 0 and otherwise the binary64 quotient of the rounded
\* sums, within 2^-44 of 50.
C13_ShortArrayNeutralNearFifty ==
    \A t \in Calls :
        TooShort(t) =>
            /\ HasStrategies(t) => AllNeutralFifty(t)
            /\ calls[t].pc \in {"map", "done"} =>
                  /\ calls[t].avg_signal = FZero
                  /\ calls[t].total_weight = FZero => calls[t].avg_confidence = FInt(50)
                  /\ Within44(calls[t].avg_confidence, FInt(50))
            /\ calls[t].pc = "done" =>
                  /\ calls[t].result.signal = "NEUTRAL"
                  /\ calls[t].result.confidence = calls[t].avg_confidence

\* C13 witness: seven rows, MACD and Volume Breakout weighted 0.1 and the
\* other two left at the default 1.0; analyze has returned NEUTRAL with a
\* confidence below 50.
C13_TenthWeightsBelowFifty ==
    \E t \in Calls :
        /\ calls[t].pc = "done"
        /\ Len(calls[t].candles) = FastPeriod - 1
        /\ DOMAIN heap[engine.weights] = {"MACD", "Volume Breakout"}
        /\ \A k \in DOMAIN heap[engine.weights] : heap[engine.weights][k] = FTenth
        /\ AllNeutralFifty(t)
        /\ calls[t].result.signal = "NEUTRAL"
        /\ FCmp(calls[t].result.confidence, FInt(50)) < 0

\* The activations of strategy_macd that have returned.
MacdReturned(t) == calls[t].pc = "done" /\ Len(calls[t].strategies) = 1

\* |10 * h - m| <= 2^-49 * |m| for mantissas mh, mm at one exponent
TenthOffBy(h10, mm) ==
    BCmp(BShl(IF BCmp(h10, mm) >= 0 THEN BSub(h10, mm) ELSE BSub(mm, h10), 49), mm) <= 0

AtExponent(a, e) == BShl(a.m, a.e - e)

NearTenthAt(h, m, e) == TenthOffBy(BMulSmall(AtExponent(h, e), 10), AtExponent(m, e))

\* h is 0.1 * m up to a relative 2^-49, as real numbers
NearTenth(h, m) == h.s = m.s /\ NearTenthAt(h, m, IF h.e < m.e THEN h.e ELSE m.e)

\* a normal float: a full 53-bit mantissa
IsNormal(a) == BitLen(a.m) = 53

\* |a| >= 6 * 2^EMin
AboveFiveUlps(a) == FGe(FAbs(a), Float(1, <<6>>, EMin))

\* C14 as stated: the histogram equals 0.1 * macd_line; the vote is LONG
\* exactly when macd_line > 0, SHORT exactly when macd_line < 0 and NEUTRAL
\* with confidence 50 exactly when macd_line = 0; every series with fewer
\* than 12 closes yields NEUTRAL.
C14_HistogramIsTenth ==
    \A t \in Calls :
        /\ MacdReturned(t) =>
              /\ calls[t].result.histogram = FMul(FTenth, calls[t].result.macd_line)
              /\ calls[t].strategies[1].signal = "LONG"
                    <=> FGt(calls[t].result.macd_line, FZero)
              /\ calls[t].strategies[1].signal = "SHORT"
                    <=> FLt(calls[t].result.macd_line, FZero)
              /\ (calls[t].strategies[1].signal = "NEUTRAL"
                     /\ calls[t].strategies[1].confidence = FInt(50))
                    <=> calls[t].result.macd_line = FZero
        /\ calls[t].pc \in {"done", "raised"} /\ Len(calls[t].candles) < 12 =>
              MacdReturned(t) /\ calls[t].strategies[1].signal = "NEUTRAL"

\* C14 amended: the histogram is macd_line - signal_line with signal_line the
\* rounded product macd_line * 0.9; for a normal macd_line it lies within a
\* relative 2^-49 of 0.1 * macd_line, and for |macd_line| >= 6 * 2^-1074 it is
\* nonzero with the MACD line's sign, the vote being LONG exactly when
\* macd_line > 0 and SHORT exactly when macd_line < 0.  A LONG vote always
\* has macd_line > 0 and a SHORT vote macd_line < 0; the vote is NEUTRAL with
\* confidence 50 when macd_line = 0 (and whenever it is NEUTRAL), and every
\* series of 1 to 11 closes has macd_line = 0 and yields NEUTRAL.
C14_HistogramFollowsMacdLine ==
    \A t \in Calls :
        MacdReturned(t) =>
            /\ IsNormal(calls[t].result.macd_line) =>
                  NearTenth(calls[t].result.histogram, calls[t].result.macd_line)
            /\ AboveFiveUlps(calls[t].result.macd_line) =>
                  /\ calls[t].result.histogram.s = calls[t].result.macd_line.s
                  /\ calls[t].strategies[1].signal = "LONG"
                        <=> FGt(calls[t].result.macd_line, FZero)
                  /\ calls[t].strategies[1].signal = "SHORT"
                        <=> FLt(calls[t].result.macd_line, FZero)
            /\ calls[t].strategies[1].signal = "LONG" =>
                  FGt(calls[t].result.macd_line, FZero)
            /\ calls[t].strategies[1].signal = "SHORT" =>
                  FLt(calls[t].result.macd_line, FZero)
            /\ calls[t].strategies[1].signal \in {"LONG", "SHORT", "NEUTRAL"}
            /\ calls[t].strategies[1].signal = "NEUTRAL" =>
                  calls[t].strategies[1].confidence = FInt(50)
            /\ calls[t].result.macd_line = FZero =>
                  calls[t].strategies[1].signal = "NEUTRAL"
            /\ Len(calls[t].candles) < 12 =>
                  /\ calls[t].result.macd_line = FZero
                  /\ calls[t].strategies[1].signal = "NEUTRAL"

\* C14 witness: strategy_macd has returned LONG on 12 or more closes with a
\* normal macd_line > 0 whose histogram is not the float 0.1 * macd_line.
C14_LongVoteInexactTenth ==
    \E t \in Calls :
        /\ MacdReturned(t)
        /\ Len(calls[t].candles) >= 12
        /\ IsNormal(calls[t].result.macd_line)
        /\ FGt(calls[t].result.macd_line, FZero)
        /\ calls[t].strategies[1].signal = "LONG"
        /\ calls[t].result.histogram # FMul(FTenth, calls[t].result.macd_line)

====
